---- MODULE Spec2Model ----
(***************************************************************************)
(* Model of the firmware-wars manual publisher:                            *)
(*   - the publish script (two-pass pagination, table-of-contents          *)
(*     injection, header/footer overlay, upload to R2, version in KV);     *)
(*   - the worker's POST /generate handler (src/src/index.ts).             *)
(*                                                                         *)
(* Representation.  A JavaScript string is the sequence of its characters  *)
(* (one-character TLA+ strings), so that the marker regular expression,    *)
(* String(n), parseFloat and template strings are computed character by    *)
(* character.  A JavaScript number used as a PDF coordinate is a record    *)
(* [nan, v]: nan is TRUE for NaN, otherwise v is the value as an integer   *)
(* count of 1/PtUnit points (all coordinates the model computes are exact  *)
(* in that unit; floating-point rounding is not modelled).  Colours and    *)
(* line thickness of the drawing operations are left out: no operation of  *)
(* the model reads them.                                                   *)
(***************************************************************************)
EXTENDS Integers, Sequences, FiniteSets, TLC

(* ------------------------------------------------------------------ *)
(* Bounds of the model                                                 *)
(* ------------------------------------------------------------------ *)

\* Largest number of pages the first render pass yields.
MaxPages == 3

\* Number of publish runs (script or worker) in one behaviour.
MaxRuns == 2

\* Largest number of pages of a document with malformed marker tokens.
MaxMarkerPages == 2

\* Largest component of the version the store holds at the start.
MaxVer == 3

(* ------------------------------------------------------------------ *)
(* Characters and strings                                              *)
(* ------------------------------------------------------------------ *)

Upper == {"A","B","C","D","E","F","G","H","I","J","K","L","M",
          "N","O","P","Q","R","S","T","U","V","W","X","Y","Z"}

Lower == {"a","b","c","d","e","f","g","h","i","j","k","l","m",
          "n","o","p","q","r","s","t","u","v","w","x","y","z"}

Digits == <<"0","1","2","3","4","5","6","7","8","9">>

Digit == {Digits[i] : i \in 1..10}

\* \w of the regular expression
WordCh == Upper \cup Lower \cup Digit \cup {"_"}

\* [A-Z0-9_.] of the regular expression
LabelCh == Upper \cup Digit \cup {"_", "."}

\* \s of the regular expression (the white space the page texts can hold)
SpaceCh == {" ", "\t", "\n"}

DigitVal(c) == CHOOSE d \in 0..9 : Digits[d + 1] = c

\* String(n) of a non-negative integer: its decimal digits
RECURSIVE ToStr(_)
ToStr(n) ==
  IF n < 10 THEN <<Digits[n + 1]>>
  ELSE ToStr(n \div 10) \o <<Digits[(n % 10) + 1]>>

(* ------------------------------------------------------------------ *)
(* Versions                                                            *)
(* ------------------------------------------------------------------ *)

V0 == [major |-> 0, minor |-> 0, patch |-> 0]

BumpKinds == {"major", "minor", "patch"}

\* Mutant: the lower components are not reset.
bumpVersion_NoReset(v, bump) ==
  IF bump = "major" THEN [major |-> v.major + 1, minor |-> v.minor, patch |-> v.patch]
  ELSE IF bump = "minor" THEN [major |-> v.major, minor |-> v.minor + 1, patch |-> v.patch]
  ELSE [major |-> v.major, minor |-> v.minor, patch |-> v.patch + 1]

bumpVersion(v, bump) ==
  IF bump = "major" THEN [major |-> v.major + 1, minor |-> 0, patch |-> 0]
  ELSE IF bump = "minor" THEN [major |-> v.major, minor |-> v.minor + 1, patch |-> 0]
  ELSE [major |-> v.major, minor |-> v.minor, patch |-> v.patch + 1]

\* `${v.major}.${v.minor}.${v.patch}`
ver(v) == ToStr(v.major) \o <<".">> \o ToStr(v.minor) \o <<".">> \o ToStr(v.patch)

versionString(v) == ver(v)

\* `manual-v${version}.pdf`
r2Key(version) ==
  <<"m","a","n","u","a","l","-","v">> \o version \o <<".","p","d","f">>

(* ------------------------------------------------------------------ *)
(* Marker extractor                                                    *)
(*   MARKER_RE = /FWMARK-(\w+?)(?:-([A-Z0-9_.]+))?(?=\s|$)/g          *)
(* ------------------------------------------------------------------ *)

FWMARK == <<"F","W","M","A","R","K","-">>

TOC == <<"T","O","C">>

TocTitle ==
  <<"Í","N","D","I","C","E"," ","D","E"," ",
    "C","O","N","T","E","N","I","D","O","S">>

\* The literal FWMARK- stands at position i of text.
LiteralAt(text, i) ==
  /\ i + Len(FWMARK) - 1 <= Len(text)
  /\ \A k \in 1..Len(FWMARK) : text[i + k - 1] = FWMARK[k]

\* Mutant: the lookahead (?=\s|$) is missing.
LookaheadOK_Missing(text, j) == TRUE

\* (?=\s|$) with j the position of the next character
LookaheadOK(text, j) == j > Len(text) \/ text[j] \in SpaceCh

\* The lengths n >= 1 for which text[s .. s+n-1] is made of characters of cls.
RunLens(text, s, cls) ==
  {n \in 1..(Len(text) - s + 1) : \A k \in s..(s + n - 1) : text[k] \in cls}

\* The label lengths with which (?:-([A-Z0-9_.]+)) followed by the lookahead
\* matches at position e, the position after the id.
GroupLens(text, e) ==
  IF e <= Len(text) /\ text[e] = "-"
  THEN {l \in RunLens(text, e + 1, LabelCh) : LookaheadOK(text, e + 1 + l)}
  ELSE {}

\* The id lengths with which the whole expression matches at position i.
IdLens(text, i) ==
  {n \in RunLens(text, i + Len(FWMARK), WordCh) :
     \/ GroupLens(text, i + Len(FWMARK) + n) # {}
     \/ LookaheadOK(text, i + Len(FWMARK) + n)}

Min(S) == CHOOSE x \in S : \A y \in S : x <= y

Max(S) == CHOOSE x \in S : \A y \in S : x >= y

SubSeqOrEmpty(text, a, b) == IF a > b THEN <<>> ELSE SubSeq(text, a, b)

\* The match of MARKER_RE at position i: the lazy \w+? takes the shortest id
\* that lets the rest match, the optional group is tried before it is skipped
\* and its + takes the longest label.  label: match[2], hasLabel FALSE when
\* it is undefined; end: the position after the match.
MatchAt(text, i) ==
  LET s == i + Len(FWMARK)
      n == Min(IdLens(text, i))
      e == s + n
      g == GroupLens(text, e)
      l == IF g = {} THEN 0 ELSE Max(g)
  IN  [id       |-> SubSeq(text, s, e - 1),
       hasLabel |-> g # {},
       label    |-> SubSeqOrEmpty(text, e + 1, e + l),
       end      |-> IF g = {} THEN e ELSE e + 1 + l]

Matches(text, i) == LiteralAt(text, i) /\ IdLens(text, i) # {}

\* text.matchAll(MARKER_RE) from position i on: the matches from left to
\* right, each search resuming where the previous match ended.
RECURSIVE MatchAllFrom(_, _)
MatchAllFrom(text, i) ==
  IF i > Len(text) THEN <<>>
  ELSE IF Matches(text, i)
       THEN LET m == MatchAt(text, i) IN <<m>> \o MatchAllFrom(text, m.end)
       ELSE MatchAllFrom(text, i + 1)

matchAll(text) == MatchAllFrom(text, 1)

\* Mutant: the fallback of a token without label is missing.
ResolveLabel_NoFallback(m) == m.label

\* label ?? (id === 'TOC' ? 'ÍNDICE DE CONTENIDOS' : id)
ResolveLabel(m) ==
  IF m.hasLabel THEN m.label
  ELSE IF m.id = TOC THEN TocTitle ELSE m.id

\* The entries pushed for the page pageNum
PageMarkers(text, pageNum) ==
  LET ms == matchAll(text)
  IN  [k \in 1..Len(ms) |->
         [id |-> ms[k].id, label |-> ResolveLabel(ms[k]), startPage |-> pageNum]]

\* The loop over the pages, before the sort
RECURSIVE CollectMarkers(_, _)
CollectMarkers(pageTexts, i) ==
  IF i > Len(pageTexts) THEN <<>>
  ELSE PageMarkers(pageTexts[i], i) \o CollectMarkers(pageTexts, i + 1)

\* Mutant: an entry goes before the entries that compare equal, which turns
\* round the markers of one page.
RECURSIVE InsertByStartPage_BeforeEqual(_, _)
InsertByStartPage_BeforeEqual(sorted, x) ==
  IF sorted = <<>> THEN <<x>>
  ELSE IF sorted[Len(sorted)].startPage - x.startPage < 0
       THEN Append(sorted, x)
       ELSE Append(InsertByStartPage_BeforeEqual(SubSeqOrEmpty(sorted, 1, Len(sorted) - 1), x),
                   sorted[Len(sorted)])

\* One insertion of a stable sort by startPage: x goes after every element
\* that does not compare greater.
RECURSIVE InsertByStartPage(_, _)
InsertByStartPage(sorted, x) ==
  IF sorted = <<>> THEN <<x>>
  ELSE IF sorted[Len(sorted)].startPage - x.startPage <= 0
       THEN Append(sorted, x)
       ELSE Append(InsertByStartPage(SubSeqOrEmpty(sorted, 1, Len(sorted) - 1), x),
                   sorted[Len(sorted)])

\* map.sort((a, b) => a.startPage - b.startPage), a stable sort
RECURSIVE SortByStartPage(_)
SortByStartPage(map) ==
  IF map = <<>> THEN <<>>
  ELSE InsertByStartPage(SortByStartPage(SubSeqOrEmpty(map, 1, Len(map) - 1)),
                         map[Len(map)])

extractSectionMap(pageTexts) == SortByStartPage(CollectMarkers(pageTexts, 1))

\* The value null of getLabelForPage
NoLabel == [found |-> FALSE, label |-> <<>>]

\* The loop of getLabelForPage from index i down to 1
RECURSIVE LabelScan(_, _, _)
LabelScan(sectionMap, pageNum, i) ==
  IF i < 1 THEN NoLabel
  ELSE IF pageNum >= sectionMap[i].startPage
       THEN [found |-> TRUE, label |-> sectionMap[i].label]
       ELSE LabelScan(sectionMap, pageNum, i - 1)

\* Mutant: the comparison is strict, so a section starts one page late.
getLabelForPage_Strict(sectionMap, pageNum) ==
  LabelScan(sectionMap, pageNum - 1, Len(sectionMap))

\* Mutant: the map is scanned from its first entry, so the first section
\* that has started is taken instead of the last.
getLabelForPage_FirstMatch(sectionMap, pageNum) ==
  LET ks == {k \in 1..Len(sectionMap) : pageNum >= sectionMap[k].startPage}
  IN  IF ks = {} THEN NoLabel
      ELSE [found |-> TRUE, label |-> sectionMap[Min(ks)].label]

\* Mutant: of the entries that share the start page found, the first one
\* gives the label.
getLabelForPage_FirstOfPage(sectionMap, pageNum) ==
  LET ks == {k \in 1..Len(sectionMap) : pageNum >= sectionMap[k].startPage}
  IN  IF ks = {} THEN NoLabel
      ELSE LET same == {j \in ks : sectionMap[j].startPage =
                                     sectionMap[Max(ks)].startPage}
           IN  [found |-> TRUE, label |-> sectionMap[Min(same)].label]

getLabelForPage(sectionMap, pageNum) ==
  LabelScan(sectionMap, pageNum, Len(sectionMap))

(* ------------------------------------------------------------------ *)
(* Unit converter and numbers                                          *)
(* ------------------------------------------------------------------ *)

\* Units per PDF point of the integer v of a number
PtUnit == 100 * 200

NaN == [nan |-> TRUE, v |-> 0]

Num(v) == [nan |-> FALSE, v |-> v]

NAdd(a, b) == IF a.nan \/ b.nan THEN NaN ELSE Num(a.v + b.v)

NSub(a, b) == IF a.nan \/ b.nan THEN NaN ELSE Num(a.v - b.v)

NHalf(a) == IF a.nan THEN NaN ELSE Num(a.v \div 2)

\* A size given in whole points
Pt(n) == Num(n * PtUnit)

RECURSIVE DigitsToInt(_)
DigitsToInt(ds) ==
  IF ds = <<>> THEN 0
  ELSE 10 * DigitsToInt(SubSeqOrEmpty(ds, 1, Len(ds) - 1)) + DigitVal(ds[Len(ds)])

\* The number of digits that start at position i
DigitRun(val, i) ==
  IF i > Len(val) THEN 0 ELSE Max(RunLens(val, i, Digit) \cup {0})

RECURSIVE SkipSpaces(_, _)
SkipSpaces(val, i) ==
  IF i <= Len(val) /\ val[i] \in SpaceCh THEN SkipSpaces(val, i + 1) ELSE i

\* parseFloat(val) in hundredths: leading white space, a sign, the integer
\* digits, a fraction; whatever follows is ignored; NaN when there is no
\* digit.  (Fractions are read to two places, exponents are not read: the
\* lengths of a layout configuration have neither.)
parseFloat(val) ==
  LET s  == SkipSpaces(val, 1)
      sg == IF s <= Len(val) /\ val[s] \in {"+", "-"} THEN 1 ELSE 0
      a  == s + sg
      n1 == DigitRun(val, a)
      d  == IF a + n1 <= Len(val) /\ val[a + n1] = "." THEN 1 ELSE 0
      n2 == IF d = 1 THEN DigitRun(val, a + n1 + 1) ELSE 0
      ip == DigitsToInt(SubSeqOrEmpty(val, a, a + n1 - 1))
      f1 == IF n2 >= 1 THEN DigitVal(val[a + n1 + 1]) ELSE 0
      f2 == IF n2 >= 2 THEN DigitVal(val[a + n1 + 2]) ELSE 0
      m  == 100 * ip + 10 * f1 + f2
  IN  IF n1 + n2 = 0 THEN NaN
      ELSE IF sg = 1 /\ val[s] = "-" THEN Num(0 - m) ELSE Num(m)

\* 28.35 points per centimetre, in hundredths
PtPerCm == 2835

\* cmToPt(val) = parseFloat(val) * 28.35
cmToPt(val) ==
  LET f == parseFloat(val)
  IN  IF f.nan THEN NaN ELSE Num(f.v * PtPerCm * (PtUnit \div 10000))

\* font.widthOfTextAtSize(text, size) for Courier, whose every glyph is 600
\* units of a 1000-unit em wide.
widthOfTextAtSize(text, size) == Num(Len(text) * size * ((PtUnit * 6) \div 10))

(* ------------------------------------------------------------------ *)
(* Header/footer overlay                                               *)
(* ------------------------------------------------------------------ *)

DrawText(text, x, y, size) ==
  [kind |-> "text", text |-> text, x |-> x, y |-> y, size |-> size]

DrawLine(x1, y1, x2, y2) ==
  [kind |-> "line", x1 |-> x1, y1 |-> y1, x2 |-> x2, y2 |-> y2]

\* Mutant: the early return of a page without label is missing.
Falsy_Never(label) == FALSE

\* if (!label) return: null, and the empty string too
Falsy(label) == ~label.found \/ label.label = <<>>

\* Mutant: the parity is taken of the zero-based index, so the sides are
\* exchanged.
isRecto_Even(pageNum) == pageNum % 2 = 0

isRecto(pageNum) == pageNum % 2 = 1

\* The drawing operations the overlay adds to page p, the pageNum-th page
OverlayOps(c, sectionMap, version, p, pageNum) ==
  LET label          == getLabelForPage(sectionMap, pageNum)
      W              == Num(p.width)
      H              == Num(p.height)
      topMarginPt    == cmToPt(c.margin.top)
      bottomMarginPt == cmToPt(c.margin.bottom)
      sideMarginPt   == cmToPt(c.margin.left)
      yPnPt          == cmToPt(c.yFromBottom)
      hFontSize      == c.hFontSize
      pnFontSize     == c.pnFontSize
      headerLineY    == NSub(H, topMarginPt)
      hTextY         == NAdd(headerLineY, NHalf(NSub(topMarginPt, Pt(hFontSize))))
      sectionText    == c.sectionPrefix \o label.label
      versionText    == <<"v">> \o version
      sectionW       == widthOfTextAtSize(sectionText, hFontSize)
      versionW       == widthOfTextAtSize(versionText, hFontSize)
      pnText         == ToStr(pageNum)
      pnW            == widthOfTextAtSize(pnText, pnFontSize)
  IN  IF Falsy(label) THEN <<>>
      ELSE (IF isRecto(pageNum)
            THEN << DrawText(sectionText, NSub(NSub(W, sideMarginPt), sectionW), hTextY, hFontSize),
                    DrawText(versionText, sideMarginPt, hTextY, hFontSize),
                    DrawText(pnText, NSub(NSub(W, sideMarginPt), pnW), yPnPt, pnFontSize) >>
            ELSE << DrawText(sectionText, sideMarginPt, hTextY, hFontSize),
                    DrawText(versionText, NSub(NSub(W, sideMarginPt), versionW), hTextY, hFontSize),
                    DrawText(pnText, sideMarginPt, yPnPt, pnFontSize) >>)
           \o << DrawLine(Num(0), headerLineY, W, headerLineY),
                 DrawLine(Num(0), bottomMarginPt, W, bottomMarginPt) >>

\* pdfDoc.getPages().forEach(...): every page with the operations added to
\* the content it has.
Overlay(c, sectionMap, version, pages) ==
  [i \in 1..Len(pages) |->
     [pages[i] EXCEPT !.ops = @ \o OverlayOps(c, sectionMap, version, pages[i], i)]]

(* ------------------------------------------------------------------ *)
(* State                                                               *)
(* ------------------------------------------------------------------ *)

VARIABLES
  kv,          \* version store: <<>> when the key version is absent, else <<VersionMeta>>
  blobs,       \* blob store: the keys of the objects it holds
  runs,        \* publish runs started so far
  pc,          \* publish script: where it stands
  exit,        \* publish script: how the last run ended
  warned,      \* publish script: the page-count warning was printed
  kv0,         \* the version store when the script's run started
  blobs0,      \* the blob store when the script's run started
  bump,        \* publish script: const bump
  cfg,         \* publish script: const cfg (pdf.config.json)
  next,        \* publish script: const next
  version,     \* publish script: const version
  dom,         \* the page's table-of-contents placeholders: element id -> text
  pass1,       \* pass-1 page buffer: the text of each page
  pass1Pages,  \* const pass1Pages
  sectionMap,  \* const sectionMap
  pass2,       \* pass-2 page buffer: the pages, each [width, height, ops]
  pass2Pages,  \* const pass2Pages
  finalPdf,    \* the pages of the document saved to tmpFile, <<>> before
  wpc,         \* worker POST /generate: where the request stands
  wstatus,     \* worker: status of the response, or the call whose exception ended the request
  wbump,       \* worker: const bump
  wnext,       \* worker: const next
  wversion,    \* worker: const version
  wpdf,        \* worker: the generated pdf, <<>> before
  wkv0,        \* the version store when the worker's request started
  wblobs0      \* the blob store when the worker's request started

storeVars == <<kv, blobs>>

passVars == <<dom, pass1, pass1Pages, sectionMap, pass2, pass2Pages, finalPdf>>

runVars == <<bump, cfg, next, version>>

outVars == <<exit, warned>>

startVars == <<kv0, blobs0>>

scriptVars == <<pc, outVars, startVars, runVars, passVars>>

workerVars == <<wpc, wstatus, wbump, wnext, wversion, wpdf, wkv0, wblobs0>>

vars == <<storeVars, runs, scriptVars, workerVars>>

(* ------------------------------------------------------------------ *)
(* Inputs                                                              *)
(* ------------------------------------------------------------------ *)

Str_1_5cm == <<"1",".","5","c","m">>

Str_1_2cm == <<"1",".","2","c","m">>

Str_1cm == <<"1","c","m">>

Str_0_6cm == <<"0",".","6","c","m">>

\* A length with no leading number
Str_cm == <<"c","m">>

NoCfg ==
  [margin |-> [top |-> <<>>, right |-> <<>>, bottom |-> <<>>, left |-> <<>>],
   yFromBottom |-> <<>>, hFontSize |-> 0, pnFontSize |-> 0, sectionPrefix |-> <<>>]

CfgA ==
  [margin |-> [top |-> Str_1_5cm, right |-> Str_1_5cm, bottom |-> Str_1_2cm,
               left |-> Str_1_5cm],
   yFromBottom |-> Str_0_6cm, hFontSize |-> 7, pnFontSize |-> 8,
   sectionPrefix |-> <<"/","/"," ">>]

CfgB ==
  [margin |-> [top |-> Str_1_2cm, right |-> Str_1_2cm, bottom |-> Str_1cm,
               left |-> Str_1cm],
   yFromBottom |-> Str_0_6cm, hFontSize |-> 6, pnFontSize |-> 7,
   sectionPrefix |-> <<>>]

\* pageNumber.yFromBottom is malformed.  (The margins are handed to the
\* renderer too, which is outside the repository; the model keeps them
\* well-formed.)
CfgBadOffset == [CfgA EXCEPT !.yFromBottom = Str_cm]

Id01 == <<"0","1">>

Id02 == <<"0","2">>

Id03 == <<"0","3">>

\* Page texts
TextCover == <<"M","a","n","u","a","l">>

TextTOC == FWMARK \o TOC

Text01 == FWMARK \o Id01 \o <<"-","I","N","I","T",".","S","Y","S">>

Text02 == <<"x"," ">> \o FWMARK \o Id02 \o <<"-","K","E","R","N","E","L","\n","y">>

Text0102 == Text01 \o <<" ">> \o Text02

Text03 == FWMARK \o Id03

PageTexts == {TextCover, TextTOC, Text01, Text02, Text0102, Text03}

\* Malformed tokens: no id; a label with lowercase letters, after the first
\* letter, at the end, at the start; a label with a second hyphen
Id09 == <<"0","9">>

TokNoId == FWMARK

TokLower == FWMARK \o Id09 \o <<"-","I","n","i","t">>

TokLowerTail == FWMARK \o Id09 \o <<"-","I","N","I","T",".","s","y","s">>

TokLowerHead == FWMARK \o Id09 \o <<"-","i","N","I","T">>

TokHyphen == FWMARK \o Id09 \o <<"-","A","-","B">>

BadTokens == {TokNoId, TokLower, TokLowerTail, TokLowerHead, TokHyphen}

\* Page texts with malformed tokens, alone and next to a well-formed token
MarkerTexts ==
  {TextCover, TextTOC, Text01, Text03}
    \cup BadTokens
    \cup {t \o <<" ">> \o Text01 : t \in BadTokens}
    \cup {Text01 \o <<" ">> \o t : t \in BadTokens}

MarkerDocs == UNION {[1..k -> MarkerTexts] : k \in 1..MaxMarkerPages}

\* Every document of 1 to n pages
DocsUpTo(n) == UNION {[1..k -> PageTexts] : k \in 1..n}

\* `toc-pn-${num}`
TocPn(num) == <<"t","o","c","-","p","n","-">> \o num

PlaceholderText == <<"?">>

DomOf(ids) == [e \in {TocPn(id) : id \in ids} |-> PlaceholderText]

EmptyDom == DomOf({})

Doms == {DomOf({TOC, Id01, Id02, Id03}), DomOf({TOC, Id01, Id03}), EmptyDom}

\* Page sizes in 1/PtUnit points: A5 and A4
PageSizes ==
  {[width |-> 8390600, height |-> 11905600],
   [width |-> 11905600, height |-> 16837800]}

\* A rendered page: its size and the content the renderer drew
RenderedPage(size, i) ==
  [width |-> size.width, height |-> size.height,
   ops |-> <<[kind |-> "body", page |-> i]>>]

ArgValues == {<<>>, <<"major">>, <<"minor">>, <<"patch">>, <<"mayor">>}

\* What `wrangler kv key get` gives: the stored value, a non-zero status,
\* an empty output, an output that is not JSON
ReadOutcomes == {"value", "status", "empty", "garbage"}

(* ------------------------------------------------------------------ *)
(* Publish script                                                      *)
(* ------------------------------------------------------------------ *)

Terminal == {"idle", "done", "failed"}

\* The page and the constants of the try block are gone.  (The temporary
\* file a run that fails leaves behind is not modelled: a later run writes
\* its own before it uploads.)
ResetPasses ==
  /\ dom' = EmptyDom
  /\ pass1' = <<>>
  /\ pass1Pages' = 0
  /\ sectionMap' = <<>>
  /\ pass2' = <<>>
  /\ pass2Pages' = 0
  /\ finalPdf' = <<>>

\* The script ends with a non-zero exit code.
Fail(why) ==
  /\ pc' = "failed"
  /\ exit' = why
  /\ UNCHANGED warned
  /\ ResetPasses

\* Mutant: the bump argument is not checked.
ScriptStart_NoValidation(arg, c) ==
  /\ pc \in Terminal
  /\ runs' = runs + 1
  /\ cfg' = c
  /\ bump' = IF arg = <<>> THEN "patch" ELSE arg[1]
  /\ next' = V0
  /\ version' = <<>>
  /\ kv0' = kv
  /\ blobs0' = blobs
  /\ warned' = FALSE
  /\ ResetPasses
  /\ pc' = "version"
  /\ exit' = ""
  /\ UNCHANGED <<storeVars, workerVars>>

\* Lines 28 and 113-117: the configuration is read, the bump argument checked.
ScriptStart(arg, c) ==
  /\ pc \in Terminal
  /\ runs' = runs + 1
  /\ cfg' = c
  /\ bump' = IF arg = <<>> THEN "patch" ELSE arg[1]
  /\ next' = V0
  /\ version' = <<>>
  /\ kv0' = kv
  /\ blobs0' = blobs
  /\ warned' = FALSE
  /\ ResetPasses
  /\ IF bump' \in BumpKinds
     THEN pc' = "version" /\ exit' = ""
     ELSE pc' = "failed" /\ exit' = "bump"
  /\ UNCHANGED <<storeVars, workerVars>>

\* getCurrentVersion()
getCurrentVersion(outcome) ==
  IF outcome = "value" /\ kv # <<>> THEN kv[1] ELSE V0

\* Mutant: a read that gives no version ends the run.
ReadVersion_AbortOnFailure(outcome) ==
  /\ pc = "version"
  /\ outcome = "value" => kv # <<>>
  /\ IF outcome = "value"
     THEN /\ next' = bumpVersion(getCurrentVersion(outcome), bump)
          /\ version' = ver(next')
          /\ pc' = "launch"
          /\ UNCHANGED <<outVars, bump, cfg, passVars>>
     ELSE /\ Fail("read")
          /\ UNCHANGED runVars
  /\ UNCHANGED <<storeVars, runs, startVars, workerVars>>

\* Lines 122-124
ReadVersion(outcome) ==
  /\ pc = "version"
  /\ outcome = "value" => kv # <<>>
  /\ next' = bumpVersion(getCurrentVersion(outcome), bump)
  /\ version' = ver(next')
  /\ pc' = "launch"
  /\ UNCHANGED <<storeVars, runs, outVars, startVars, bump, cfg, passVars, workerVars>>

\* Lines 185-186: puppeteer.launch(), browser.newPage()
Launch(ok) ==
  /\ pc = "launch"
  /\ IF ok THEN pc' = "goto" /\ UNCHANGED <<outVars, passVars>>
     ELSE Fail("launch")
  /\ UNCHANGED <<storeVars, runs, startVars, runVars, workerVars>>

\* Lines 197-198: page.goto(), page.waitForSelector()
Goto(ok, d) ==
  /\ pc = "goto"
  /\ IF ok
     THEN /\ pc' = "pass1"
          /\ dom' = d
          /\ UNCHANGED <<outVars, pass1, pass1Pages, sectionMap, pass2, pass2Pages,
                         finalPdf>>
     ELSE Fail("goto")
  /\ UNCHANGED <<storeVars, runs, startVars, runVars, workerVars>>

\* Line 201: page.pdf(pdfOpts), pass 1
Render1(ok, texts) ==
  /\ pc = "pass1"
  /\ IF ok
     THEN /\ pc' = "extract"
          /\ pass1' = texts
          /\ UNCHANGED <<outVars, dom, pass1Pages, sectionMap, pass2, pass2Pages,
                         finalPdf>>
     ELSE Fail("pass1")
  /\ UNCHANGED <<storeVars, runs, startVars, runVars, workerVars>>

\* Lines 204-205
Extract ==
  /\ pc = "extract"
  /\ sectionMap' = extractSectionMap(pass1)
  /\ pass1Pages' = Len(pass1)
  /\ pc' = "inject"
  /\ UNCHANGED <<storeVars, runs, outVars, startVars, runVars, dom, pass1, pass2,
                 pass2Pages, finalPdf, workerVars>>

\* Mutant: the table-of-contents marker is not filtered out.
InjectedSections_NoFilter(map) ==
  [k \in 1..Len(map) |-> [num |-> map[k].id, startPage |-> map[k].startPage]]

\* sectionMap.filter(s => s.id !== 'TOC').map(s => ({ num: s.id, startPage: s.startPage }))
InjectedSections(map) ==
  LET kept == SelectSeq(map, LAMBDA s : s.id # TOC)
  IN  [k \in 1..Len(kept) |-> [num |-> kept[k].id, startPage |-> kept[k].startPage]]

\* Mutant: the number written is the 0-based index of the page.
InjectOne_ZeroBased(d, s) ==
  IF TocPn(s.num) \in DOMAIN d
  THEN [d EXCEPT ![TocPn(s.num)] = ToStr(s.startPage - 1)]
  ELSE d

\* const el = document.getElementById(`toc-pn-${num}`);
\* if (el) el.textContent = String(startPage);
InjectOne(d, s) ==
  IF TocPn(s.num) \in DOMAIN d
  THEN [d EXCEPT ![TocPn(s.num)] = ToStr(s.startPage)]
  ELSE d

\* for (const { num, startPage } of sections) ...
RECURSIVE InjectAll(_, _)
InjectAll(d, sections) ==
  IF sections = <<>> THEN d
  ELSE InjectOne(InjectAll(d, SubSeqOrEmpty(sections, 1, Len(sections) - 1)),
                 sections[Len(sections)])

\* Lines 213-218: page.evaluate(...)
Inject(ok) ==
  /\ pc = "inject"
  /\ IF ok
     THEN /\ pc' = "pass2"
          /\ dom' = InjectAll(dom, InjectedSections(sectionMap))
          /\ UNCHANGED <<outVars, pass1, pass1Pages, sectionMap, pass2, pass2Pages,
                         finalPdf>>
     ELSE Fail("inject")
  /\ UNCHANGED <<storeVars, runs, startVars, runVars, workerVars>>

\* Mutant: a failed second pass is swallowed and the script goes on.
Render2_Swallowed(ok, n, size) ==
  /\ pc = "pass2"
  /\ IF ok
     THEN /\ pc' = "verify"
          /\ pass2' = [i \in 1..n |-> RenderedPage(size, i)]
          /\ UNCHANGED <<outVars, dom, pass1, pass1Pages, sectionMap, pass2Pages,
                         finalPdf>>
     ELSE /\ pc' = "upload"
          /\ exit' = "pass2"
          /\ UNCHANGED warned
          /\ ResetPasses
  /\ UNCHANGED <<storeVars, runs, startVars, runVars, workerVars>>

\* Line 220: page.pdf(pdfOpts), pass 2
Render2(ok, n, size) ==
  /\ pc = "pass2"
  /\ IF ok
     THEN /\ pc' = "verify"
          /\ pass2' = [i \in 1..n |-> RenderedPage(size, i)]
          /\ UNCHANGED <<outVars, dom, pass1, pass1Pages, sectionMap, pass2Pages,
                         finalPdf>>
     ELSE Fail("pass2")
  /\ UNCHANGED <<storeVars, runs, startVars, runVars, workerVars>>

\* Mutant: a page-count difference ends the publish.
Verify_AbortOnDrift ==
  /\ pc = "verify"
  /\ IF pass1Pages # Len(pass2)
     THEN /\ pc' = "failed"
          /\ exit' = "drift"
          /\ warned' = TRUE
          /\ ResetPasses
     ELSE /\ pc' = "overlay"
          /\ pass2Pages' = Len(pass2)
          /\ warned' = FALSE
          /\ UNCHANGED <<exit, dom, pass1, pass1Pages, sectionMap, pass2, finalPdf>>
  /\ UNCHANGED <<storeVars, runs, startVars, runVars, workerVars>>

\* Lines 221-225
Verify ==
  /\ pc = "verify"
  /\ pass2Pages' = Len(pass2)
  /\ warned' = (pass1Pages # pass2Pages')
  /\ pc' = "overlay"
  /\ UNCHANGED <<storeVars, runs, exit, startVars, runVars, dom, pass1, pass1Pages,
                 sectionMap, pass2, finalPdf, workerVars>>

\* Mutant: the overlay reads the first entry of the section map and fails on
\* an empty map.
OverlayAndSave_NeedsSection(ok) ==
  /\ pc = "overlay"
  /\ IF ok /\ sectionMap # <<>>
     THEN /\ pc' = "close"
          /\ finalPdf' = Overlay(cfg, sectionMap, version, pass2)
          /\ UNCHANGED <<outVars, dom, pass1, pass1Pages, sectionMap, pass2,
                         pass2Pages>>
     ELSE Fail("overlay")
  /\ UNCHANGED <<storeVars, runs, startVars, runVars, workerVars>>

\* Mutant: only the pages that pass 1 had are overlaid.
OverlayAndSave_Pass1Only(ok) ==
  /\ pc = "overlay"
  /\ IF ok
     THEN /\ pc' = "close"
          /\ finalPdf' =
               [i \in 1..Len(pass2) |->
                  IF i <= pass1Pages
                  THEN Overlay(cfg, sectionMap, version, pass2)[i]
                  ELSE pass2[i]]
          /\ UNCHANGED <<outVars, dom, pass1, pass1Pages, sectionMap, pass2,
                         pass2Pages>>
     ELSE Fail("overlay")
  /\ UNCHANGED <<storeVars, runs, startVars, runVars, workerVars>>

\* Mutant: the overlay is applied a second time to the pages it has drawn on.
OverlayAndSave_Twice(ok) ==
  /\ pc = "overlay"
  /\ IF ok
     THEN /\ pc' = "close"
          /\ finalPdf' = Overlay(cfg, sectionMap, version,
                                 Overlay(cfg, sectionMap, version, pass2))
          /\ UNCHANGED <<outVars, dom, pass1, pass1Pages, sectionMap, pass2,
                         pass2Pages>>
     ELSE Fail("overlay")
  /\ UNCHANGED <<storeVars, runs, startVars, runVars, workerVars>>

\* Lines 230-276: the overlay, pdfDoc.save(), writeFileSync(tmpFile, finalPdf)
OverlayAndSave(ok) ==
  /\ pc = "overlay"
  /\ IF ok
     THEN /\ pc' = "close"
          /\ finalPdf' = Overlay(cfg, sectionMap, version, pass2)
          /\ UNCHANGED <<outVars, dom, pass1, pass1Pages, sectionMap, pass2,
                         pass2Pages>>
     ELSE Fail("overlay")
  /\ UNCHANGED <<storeVars, runs, startVars, runVars, workerVars>>

\* Lines 278-280: finally { await browser.close() }; the page and the
\* constants of the try block are gone, tmpFile holds the document.
Close ==
  /\ pc = "close"
  /\ pc' = "upload"
  /\ dom' = EmptyDom
  /\ pass1' = <<>>
  /\ pass1Pages' = 0
  /\ sectionMap' = <<>>
  /\ pass2' = <<>>
  /\ pass2Pages' = 0
  /\ UNCHANGED <<storeVars, runs, outVars, startVars, runVars, finalPdf, workerVars>>

\* Mutant: the status of the upload is not checked.
R2Put_NoStatusCheck(ok) ==
  /\ pc = "upload"
  /\ blobs' = IF ok THEN blobs \cup {r2Key(version)} ELSE blobs
  /\ pc' = "kvput"
  /\ UNCHANGED <<kv, runs, outVars, startVars, runVars, passVars, workerVars>>

\* Lines 284-299: wrangler r2 object put; a non-zero status ends the script
R2Put(ok) ==
  /\ pc = "upload"
  /\ IF ok
     THEN /\ blobs' = blobs \cup {r2Key(version)}
          /\ pc' = "kvput"
          /\ UNCHANGED <<outVars, passVars>>
     ELSE /\ UNCHANGED blobs
          /\ Fail("r2")
  /\ UNCHANGED <<kv, runs, startVars, runVars, workerVars>>

\* Mutant: the version is written only when the store still holds what it
\* held when the run started (a compare-and-set).
KvPut_CompareAndSet(ok) ==
  /\ pc = "kvput"
  /\ IF ok /\ kv = kv0
     THEN /\ kv' = <<next>>
          /\ pc' = "done"
          /\ exit' = "ok"
          /\ UNCHANGED warned
          /\ ResetPasses
     ELSE /\ UNCHANGED kv
          /\ Fail("kv")
  /\ UNCHANGED <<blobs, runs, startVars, runVars, workerVars>>

\* Lines 303-306: kvPut('version', next), unlinkSync(tmpFile)
KvPut(ok) ==
  /\ pc = "kvput"
  /\ IF ok
     THEN /\ kv' = <<next>>
          /\ pc' = "done"
          /\ exit' = "ok"
          /\ UNCHANGED warned
          /\ ResetPasses
     ELSE /\ UNCHANGED kv
          /\ Fail("kv")
  /\ UNCHANGED <<blobs, runs, startVars, runVars, workerVars>>

\* The process is killed at any point of a run.
Crash ==
  /\ pc \notin Terminal
  /\ Fail("crash")
  /\ UNCHANGED <<storeVars, runs, startVars, runVars, workerVars>>

(* ------------------------------------------------------------------ *)
(* Worker: POST /generate                                              *)
(* ------------------------------------------------------------------ *)

WTerminal == {"idle", "responded"}

\* The version the worker's header template prints: "System Manual v1.0"
HeaderTemplateVersion == <<"1",".","0">>

Respond(status) ==
  /\ wpc' = "responded"
  /\ wstatus' = status
  /\ wpdf' = <<>>

\* Lines 146-159: the secret and the bump parameter are checked.
WStart(auth, arg) ==
  /\ wpc \in WTerminal
  /\ runs' = runs + 1
  /\ wbump' = IF arg = <<>> THEN "patch" ELSE arg[1]
  /\ wnext' = V0
  /\ wversion' = <<>>
  /\ wkv0' = kv
  /\ wblobs0' = blobs
  /\ IF ~auth THEN Respond("401")
     ELSE IF wbump' \notin BumpKinds THEN Respond("400")
     ELSE wpc' = "version" /\ wstatus' = "" /\ wpdf' = <<>>
  /\ UNCHANGED <<storeVars, scriptVars>>

\* Lines 162-168: env.META.get('version', 'json') ?? {0, 0, 0}
WReadVersion(ok) ==
  /\ wpc = "version"
  /\ IF ok
     THEN /\ wnext' = bumpVersion(IF kv # <<>> THEN kv[1] ELSE V0, wbump)
          /\ wversion' = versionString(wnext')
          /\ wpc' = "generate"
          /\ UNCHANGED <<wstatus, wpdf>>
     ELSE /\ Respond("get")
          /\ UNCHANGED <<wnext, wversion>>
  /\ UNCHANGED <<storeVars, runs, scriptVars, wbump, wkv0, wblobs0>>

\* Lines 171-180: generatePdf(env); a failure is answered with status 500
WGenerate(ok) ==
  /\ wpc = "generate"
  /\ IF ok
     THEN /\ wpdf' = <<[headerVersion |-> HeaderTemplateVersion]>>
          /\ wpc' = "put"
          /\ UNCHANGED wstatus
     ELSE Respond("500")
  /\ UNCHANGED <<storeVars, runs, scriptVars, wbump, wnext, wversion, wkv0, wblobs0>>

\* Mutant: a failed blob write is swallowed and the version is written.
WPut_Swallowed(ok) ==
  /\ wpc = "put"
  /\ blobs' = IF ok THEN blobs \cup {r2Key(wversion)} ELSE blobs
  /\ wpc' = "kvput"
  /\ UNCHANGED <<kv, runs, scriptVars, wstatus, wpdf, wbump, wnext, wversion, wkv0, wblobs0>>

\* Lines 183-186: env.ASSETS.put(r2Key(version), pdf, ...)
WPut(ok) ==
  /\ wpc = "put"
  /\ IF ok
     THEN /\ blobs' = blobs \cup {r2Key(wversion)}
          /\ wpc' = "kvput"
          /\ UNCHANGED <<wstatus, wpdf>>
     ELSE /\ UNCHANGED blobs
          /\ Respond("put")
  /\ UNCHANGED <<kv, runs, scriptVars, wbump, wnext, wversion, wkv0, wblobs0>>

\* Lines 189-194: env.META.put('version', JSON.stringify(next)), the response
WKvPut(ok) ==
  /\ wpc = "kvput"
  /\ IF ok
     THEN /\ kv' = <<wnext>>
          /\ Respond("200")
     ELSE /\ UNCHANGED kv
          /\ Respond("kvput")
  /\ UNCHANGED <<blobs, runs, scriptVars, wbump, wnext, wversion, wkv0, wblobs0>>

\* The request is cut off at any point.
WCrash ==
  /\ wpc \notin WTerminal
  /\ Respond("cut")
  /\ UNCHANGED <<storeVars, runs, scriptVars, wbump, wnext, wversion, wkv0, wblobs0>>

(* ------------------------------------------------------------------ *)
(* Specifications                                                      *)
(* ------------------------------------------------------------------ *)

Init ==
  /\ kv = <<>>
  /\ blobs = {}
  /\ runs = 0
  /\ pc = "idle"
  /\ exit = ""
  /\ bump = ""
  /\ cfg = NoCfg
  /\ next = V0
  /\ version = <<>>
  /\ dom = EmptyDom
  /\ pass1 = <<>>
  /\ pass1Pages = 0
  /\ sectionMap = <<>>
  /\ pass2 = <<>>
  /\ pass2Pages = 0
  /\ warned = FALSE
  /\ kv0 = <<>>
  /\ blobs0 = {}
  /\ finalPdf = <<>>
  /\ wpc = "idle"
  /\ wstatus = ""
  /\ wbump = ""
  /\ wnext = V0
  /\ wversion = <<>>
  /\ wpdf = <<>>
  /\ wkv0 = <<>>
  /\ wblobs0 = {}

\* The documents, pages and configurations of the publish runs of Spec
SpecDocs == {<<TextCover, TextTOC, Text01>>, <<Text01, Text02>>}

SpecCfgs == {CfgA, CfgBadOffset}

A5 == CHOOSE s \in PageSizes : \A t \in PageSizes : s.width <= t.width

\* The page counts pass 2 can have after a pass 1 of n pages
Pass2Counts(n) == {m \in {n - 1, n, n + 1} : m >= 1}

\* One publish at a time: a run starts when no other is in progress.
Next ==
  \/ \E arg \in ArgValues, c \in SpecCfgs :
       runs < MaxRuns /\ wpc \in WTerminal /\ ScriptStart(arg, c)
  \/ \E o \in ReadOutcomes : ReadVersion(o)
  \/ \E ok \in BOOLEAN : Launch(ok)
  \/ \E ok \in BOOLEAN : Goto(ok, DomOf({TOC, Id01, Id02, Id03}))
  \/ \E ok \in BOOLEAN, d \in SpecDocs : Render1(ok, d)
  \/ Extract
  \/ \E ok \in BOOLEAN : Inject(ok)
  \/ \E ok \in BOOLEAN, n \in Pass2Counts(pass1Pages) : Render2(ok, n, A5)
  \/ Verify
  \/ \E ok \in BOOLEAN : OverlayAndSave(ok)
  \/ Close
  \/ \E ok \in BOOLEAN : R2Put(ok)
  \/ \E ok \in BOOLEAN : KvPut(ok)
  \/ Crash
  \/ \E auth \in BOOLEAN, arg \in ArgValues :
       runs < MaxRuns /\ pc \in Terminal /\ WStart(auth, arg)
  \/ \E ok \in BOOLEAN : WReadVersion(ok)
  \/ \E ok \in BOOLEAN : WGenerate(ok)
  \/ \E ok \in BOOLEAN : WPut(ok)
  \/ \E ok \in BOOLEAN : WKvPut(ok)
  \/ WCrash

Spec == Init /\ [][Next]_vars

\* One run of the publish script in which nothing fails, over every document
\* of up to MaxPages pages
NextPages ==
  \/ \E c \in {CfgA, CfgB} : runs = 0 /\ ScriptStart(<<>>, c)
  \/ ReadVersion("empty")
  \/ Launch(TRUE)
  \/ \E d \in Doms : Goto(TRUE, d)
  \/ \E d \in DocsUpTo(MaxPages) : Render1(TRUE, d)
  \/ Extract
  \/ Inject(TRUE)
  \/ \E n \in Pass2Counts(pass1Pages), size \in PageSizes : Render2(TRUE, n, size)
  \/ Verify
  \/ OverlayAndSave(TRUE)
  \/ Close
  \/ R2Put(TRUE)
  \/ KvPut(TRUE)

SpecPages == Init /\ [][NextPages]_vars

\* One run of the publish script in which nothing fails, over documents with
\* malformed marker tokens
NextMarkers ==
  \/ runs = 0 /\ ScriptStart(<<>>, CfgA)
  \/ ReadVersion("empty")
  \/ Launch(TRUE)
  \/ Goto(TRUE, DomOf({TOC, Id01, Id09}))
  \/ \E d \in MarkerDocs : Render1(TRUE, d)
  \/ Extract
  \/ Inject(TRUE)
  \/ Render2(TRUE, pass1Pages, A5)
  \/ Verify
  \/ OverlayAndSave(TRUE)
  \/ Close
  \/ R2Put(TRUE)
  \/ KvPut(TRUE)

SpecMarkers == Init /\ [][NextMarkers]_vars

\* The versions the store can hold when a behaviour of SpecBump starts, each
\* published by an earlier run
StoredVersions == [major : 0..MaxVer, minor : 0..MaxVer, patch : 0..MaxVer]

InitBump ==
  /\ kv \in {<<v>> : v \in StoredVersions}
  /\ blobs = {r2Key(ver(kv[1]))}
  /\ runs = 0
  /\ pc = "idle"
  /\ exit = ""
  /\ bump = ""
  /\ cfg = NoCfg
  /\ next = V0
  /\ version = <<>>
  /\ dom = EmptyDom
  /\ pass1 = <<>>
  /\ pass1Pages = 0
  /\ sectionMap = <<>>
  /\ pass2 = <<>>
  /\ pass2Pages = 0
  /\ warned = FALSE
  /\ kv0 = <<>>
  /\ blobs0 = {}
  /\ finalPdf = <<>>
  /\ wpc = "idle"
  /\ wstatus = ""
  /\ wbump = ""
  /\ wnext = V0
  /\ wversion = <<>>
  /\ wpdf = <<>>
  /\ wkv0 = <<>>
  /\ wblobs0 = {}

\* The bump arguments that pass the validation
ValidArgs == {a \in ArgValues : a = <<>> \/ a[1] \in BumpKinds}

\* Publishes by the script and by the worker in which nothing fails, from
\* any stored version
NextBump ==
  \/ \E arg \in ValidArgs :
       runs < MaxRuns /\ wpc \in WTerminal /\ ScriptStart(arg, CfgA)
  \/ ReadVersion("value")
  \/ Launch(TRUE)
  \/ Goto(TRUE, DomOf({TOC, Id01}))
  \/ Render1(TRUE, <<TextTOC, Text01>>)
  \/ Extract
  \/ Inject(TRUE)
  \/ Render2(TRUE, pass1Pages, A5)
  \/ Verify
  \/ OverlayAndSave(TRUE)
  \/ Close
  \/ R2Put(TRUE)
  \/ KvPut(TRUE)
  \/ \E arg \in ValidArgs :
       runs < MaxRuns /\ pc \in Terminal /\ WStart(TRUE, arg)
  \/ WReadVersion(TRUE)
  \/ WGenerate(TRUE)
  \/ WPut(TRUE)
  \/ WKvPut(TRUE)

SpecBump == InitBump /\ [][NextBump]_vars

\* The ten-page document: FWMARK-TOC on page 1, FWMARK-01-INIT.SYS on page
\* 3, FWMARK-02-KERNEL on page 7
Doc10 ==
  [p \in 1..10 |->
     IF p = 1 THEN TextTOC
     ELSE IF p = 3 THEN Text01
     ELSE IF p = 7 THEN Text02
     ELSE TextCover]

\* One run of the publish script over the ten-page document, in which
\* nothing fails
NextDoc10 ==
  \/ \E c \in {CfgA, CfgB} : runs = 0 /\ ScriptStart(<<>>, c)
  \/ ReadVersion("empty")
  \/ Launch(TRUE)
  \/ \E d \in Doms : Goto(TRUE, d)
  \/ Render1(TRUE, Doc10)
  \/ Extract
  \/ Inject(TRUE)
  \/ \E n \in Pass2Counts(pass1Pages), size \in PageSizes : Render2(TRUE, n, size)
  \/ Verify
  \/ OverlayAndSave(TRUE)
  \/ Close
  \/ R2Put(TRUE)
  \/ KvPut(TRUE)

SpecDoc10 == Init /\ [][NextDoc10]_vars

\* The script and a worker request at the same time: either starts whatever
\* the other is doing, and their steps interleave.  Nothing fails.
NextRace ==
  \/ \E arg \in ValidArgs : runs < MaxRuns /\ ScriptStart(arg, CfgA)
  \/ \E o \in {"value", "empty"} : (o = "empty" => kv = <<>>) /\ ReadVersion(o)
  \/ Launch(TRUE)
  \/ Goto(TRUE, DomOf({TOC, Id01}))
  \/ Render1(TRUE, <<TextTOC, Text01>>)
  \/ Extract
  \/ Inject(TRUE)
  \/ Render2(TRUE, pass1Pages, A5)
  \/ Verify
  \/ OverlayAndSave(TRUE)
  \/ Close
  \/ R2Put(TRUE)
  \/ KvPut(TRUE)
  \/ \E arg \in ValidArgs : runs < MaxRuns /\ WStart(TRUE, arg)
  \/ WReadVersion(TRUE)
  \/ WGenerate(TRUE)
  \/ WPut(TRUE)
  \/ WKvPut(TRUE)

SpecRace == Init /\ [][NextRace]_vars

(* ------------------------------------------------------------------ *)
(* Properties                                                          *)
(* ------------------------------------------------------------------ *)

\* C1: whenever the version store holds a version V, the blob store holds
\* an object under the key manual-vV.pdf, in every state of every sequence
\* of publish runs of the script and of the worker, failed and crashed runs
\* included.
C1_VersionHasBlob ==
  kv # <<>> => r2Key(versionString(kv[1])) \in blobs

\* A run wrote its blob and ended before its version write while the
\* version store holds the version of an earlier run: an orphaned blob.
C1_OrphanedBlob ==
  /\ pc = "failed"
  /\ exit \in {"crash", "kv"}
  /\ kv # <<>>
  /\ kv[1] # next
  /\ r2Key(version) \in blobs
  /\ r2Key(version) \notin blobs0

\* C2: for the section map M of a run and every page number p >= 1,
\* getLabelForPage(M, p) is null when p is smaller than the startPage of the
\* first marker, and otherwise the label of the marker k whose startPage is
\* the greatest one <= p, p lying before the startPage of marker k + 1.
C2_LabelForPage ==
  sectionMap # <<>> =>
    \A p \in 1..(MaxPages + 2) :
      LET M == sectionMap
          r == getLabelForPage(M, p)
      IN  IF p < M[1].startPage
          THEN r = NoLabel
          ELSE \E k \in 1..Len(M) :
                 /\ M[k].startPage <= p
                 /\ \A j \in 1..Len(M) :
                      M[j].startPage <= p => M[j].startPage <= M[k].startPage
                 /\ k = Len(M) \/ p < M[k + 1].startPage
                 /\ r = [found |-> TRUE, label |-> M[k].label]

\* A map of several markers on different pages, the first after page 1.
C2_SeveralSections ==
  /\ pc = "close"
  /\ Len(sectionMap) >= 3
  /\ sectionMap[1].startPage > 1
  /\ sectionMap[1].startPage < sectionMap[Len(sectionMap)].startPage
  /\ sectionMap[1].label # sectionMap[Len(sectionMap)].label

\* C3: the injection step leaves the section map and the pass-1 buffer
\* as they are and creates no placeholder; a placeholder toc-pn-{id} that
\* exists ends with the startPage of the marker of that id when the id is
\* not TOC and is in the section map (of the last such marker when the id
\* occurs more than once), and with the text it had otherwise, the
\* placeholder of TOC included; after the turn of each marker that is not
\* TOC and has a placeholder, the placeholder reads that marker's
\* startPage; a marker without placeholder does not stop the step.
C3_InjectFrame ==
  [][pc = "inject" =>
       /\ pc' = "pass2"
       /\ sectionMap' = sectionMap
       /\ pass1' = pass1
       /\ pass1Pages' = pass1Pages
       /\ DOMAIN dom' = DOMAIN dom
       /\ \A e \in DOMAIN dom :
            LET ks == {k \in 1..Len(sectionMap) :
                         sectionMap[k].id # TOC /\ TocPn(sectionMap[k].id) = e}
            IN  IF ks = {} THEN dom'[e] = dom[e]
                ELSE dom'[e] = ToStr(sectionMap[Max(ks)].startPage)
       /\ \A k \in 1..Len(sectionMap) :
            (sectionMap[k].id # TOC /\ TocPn(sectionMap[k].id) \in DOMAIN dom) =>
              InjectAll(dom, InjectedSections(SubSeq(sectionMap, 1, k)))
                [TocPn(sectionMap[k].id)] = ToStr(sectionMap[k].startPage)
  ]_vars

\* After the injection: the placeholder of 01 holds the page of marker 01,
\* the placeholder of TOC and the placeholder of 03 (no marker 03) hold
\* their first text, marker 02 has no placeholder.
C3_Injected ==
  /\ pc = "pass2"
  /\ \E k \in 1..Len(sectionMap) : sectionMap[k].id = TOC
  /\ TocPn(TOC) \in DOMAIN dom
  /\ dom[TocPn(TOC)] = PlaceholderText
  /\ \E k \in 1..Len(sectionMap) :
       sectionMap[k].id = Id01 /\ dom[TocPn(Id01)] = ToStr(sectionMap[k].startPage)
  /\ \E k \in 1..Len(sectionMap) : sectionMap[k].id = Id02
  /\ TocPn(Id02) \notin DOMAIN dom
  /\ dom[TocPn(Id03)] = PlaceholderText

\* The places of the script after the page counts were compared
AfterVerify == {"overlay", "close", "upload", "kvput"}

\* C4: a difference between the page counts of the two passes only sets the
\* warning: the comparison step goes on to the overlay with the section map
\* and the pass-2 pages as they are (a run ends at that step only by being
\* killed); the overlay is that of the pass-2 pages under the map extracted
\* from pass 1; no step goes back to a render pass; the blob write and the
\* version write that follow write the key and the version of the run.
C4_DriftOnlyWarns ==
  [][/\ pc = "verify" =>
          \/ pc' = "failed" /\ exit' = "crash"
          \/ /\ pc' = "overlay"
             /\ warned' = (pass1Pages # Len(pass2))
             /\ pass2Pages' = Len(pass2)
             /\ sectionMap' = sectionMap
             /\ pass2' = pass2
     /\ (warned /\ pc = "overlay" /\ pc' # "failed") =>
          /\ pc' = "close"
          /\ finalPdf' = Overlay(cfg, extractSectionMap(pass1), version, pass2)
          /\ Len(finalPdf') = pass2Pages
     /\ (warned /\ pc \in AfterVerify) => pc' \in AfterVerify \cup {"done", "failed"}
     /\ (warned /\ pc = "upload" /\ pc' # "failed") =>
          pc' = "kvput" /\ blobs' = blobs \cup {r2Key(ver(next))}
     /\ (warned /\ pc = "kvput" /\ pc' # "failed") =>
          pc' = "done" /\ kv' = <<next>> /\ exit' = "ok"
  ]_vars

\* A run whose passes differed in page count has ended well: its blob and
\* its version are stored.
C4_DriftedRunPublished ==
  /\ pc = "done"
  /\ warned
  /\ kv = <<next>>
  /\ r2Key(version) \in blobs
  /\ r2Key(version) \notin blobs0

RenderFailures == {"goto", "pass1", "pass2"}

\* C5: the step in which the navigation, pass 1 or pass 2 fails ends the
\* script's run, the blob store and the version store being what they were
\* when the run started, and the run is not taken up again: after a failed
\* run the script only starts a new run.  Likewise the worker answers a
\* failed generation with status 500, both stores being what they were when
\* the request started.
C5_RenderFailureAborts ==
  [][/\ (exit' \in RenderFailures /\ exit' # exit) =>
          pc' = "failed" /\ kv' = kv0 /\ blobs' = blobs0
     /\ (pc = "failed" /\ pc' # "failed") => runs' = runs + 1
     /\ (wstatus' = "500" /\ wstatus # "500") =>
          wpc' = "responded" /\ kv' = wkv0 /\ blobs' = wblobs0
     /\ (wpc = "responded" /\ wpc' # "responded") => runs' = runs + 1
  ]_vars

\* The second pass of a run failed after an earlier run had published.
C5_SecondPassFailed ==
  /\ pc = "failed"
  /\ exit = "pass2"
  /\ kv # <<>>
  /\ kv = kv0
  /\ blobs = blobs0

\* C6: a step that leaves the blob write without the run's blob in the
\* store ends the run (the script fails, the worker answers no 200) with
\* the version store holding what it held when the run started; the same
\* for the step that reports the failed upload.
C6_BlobFailureKeepsVersion ==
  [][/\ (pc = "upload" /\ pc' # "upload" /\ r2Key(version) \notin blobs') =>
          pc' = "failed" /\ kv' = kv /\ kv' = kv0
     /\ (exit' = "r2" /\ exit # "r2") =>
          pc = "upload" /\ pc' = "failed" /\ kv' = kv /\ kv' = kv0
     /\ (wpc = "put" /\ wpc' # "put" /\ r2Key(wversion) \notin blobs') =>
          wpc' = "responded" /\ wstatus' # "200" /\ kv' = kv /\ kv' = wkv0
     /\ (wstatus' = "put" /\ wstatus # "put") =>
          wpc = "put" /\ wpc' = "responded" /\ kv' = kv /\ kv' = wkv0
  ]_vars

\* The upload of a run failed; the version store holds the version an
\* earlier run published.
C6_UploadFailed ==
  /\ pc = "failed"
  /\ exit = "r2"
  /\ kv # <<>>
  /\ kv = kv0
  /\ kv[1] # next
  /\ r2Key(version) \notin blobs

\* C7: a script run whose bump is none of major, minor, patch is failed by
\* its first step with the bump error, no page loaded, nothing rendered and
\* neither store written; a worker request with such a bump is answered 400
\* (401 without the secret) with neither store written.
C7_InvalidBumpRejected ==
  [][/\ (bump' \notin BumpKinds \cup {""} /\ UNCHANGED workerVars) =>
          /\ pc' = "failed"
          /\ exit' = "bump"
          /\ UNCHANGED storeVars
          /\ dom' = EmptyDom /\ pass1' = <<>> /\ pass2' = <<>> /\ finalPdf' = <<>>
     /\ (wbump' \notin BumpKinds \cup {""} /\ UNCHANGED scriptVars) =>
          /\ wpc' = "responded"
          /\ wstatus' \in {"400", "401"}
          /\ UNCHANGED storeVars
          /\ wpdf' = <<>>
  ]_vars

\* A run with the bump "mayor" has failed after an earlier run published.
C7_BumpRefused ==
  /\ pc = "failed"
  /\ exit = "bump"
  /\ bump = "mayor"
  /\ kv # <<>>
  /\ kv = kv0
  /\ blobs = blobs0

\* The lengths of a layout configuration
Lengths(c) == {c.margin.top, c.margin.right, c.margin.bottom, c.margin.left, c.yFromBottom}

Malformed(c) == \E val \in Lengths(c) : parseFloat(val).nan

\* C8: a publish whose layout configuration has a length without a leading
\* number gets no further than the start of pass 1 and writes neither store.
C8_MalformedConfigIsFatal ==
  (Malformed(cfg) /\ pc \notin {"idle", "failed"}) =>
    /\ pc \in {"version", "launch", "goto", "pass1"}
    /\ kv = kv0
    /\ blobs = blobs0

\* The operations the overlay added to page i
Added(i) == SubSeqOrEmpty(finalPdf[i].ops, Len(pass2[i].ops) + 1, Len(finalPdf[i].ops))

Kinds(ops) == [k \in 1..Len(ops) |-> ops[k].kind]

\* C9: once the overlay is applied, a page for which getLabelForPage gives
\* null has the content it had in pass 2 and nothing more, and every other
\* page has that content followed by exactly the section label (prefix and
\* label), the version string, the page number and two rules.
C9_CoverUntouched ==
  pc = "close" =>
    /\ Len(finalPdf) = Len(pass2)
    /\ \A i \in 1..Len(pass2) :
         LET l == getLabelForPage(sectionMap, i)
         IN  /\ SubSeq(finalPdf[i].ops, 1, Len(pass2[i].ops)) = pass2[i].ops
             /\ IF l = NoLabel
                THEN finalPdf[i] = pass2[i]
                ELSE /\ Kinds(Added(i)) = <<"text", "text", "text", "line", "line">>
                     /\ Added(i)[1].text = cfg.sectionPrefix \o l.label
                     /\ Added(i)[2].text = <<"v">> \o ver(next)
                     /\ Added(i)[3].text = ToStr(i)

\* A document whose first page has no label and whose last page has one.
C9_CoverAndLabelled ==
  /\ pc = "close"
  /\ Len(finalPdf) >= 2
  /\ getLabelForPage(sectionMap, 1) = NoLabel
  /\ getLabelForPage(sectionMap, Len(finalPdf)) # NoLabel
  /\ Len(finalPdf[Len(finalPdf)].ops) > Len(finalPdf[1].ops)

\* The text op ends at x: it is right-aligned to x.
EndsAt(op, x) == NAdd(op.x, widthOfTextAtSize(op.text, op.size)) = x

\* The mirrored placement of label, version and page number on the labelled
\* pages, the left margin being leftPt wide and the right margin rightPt
Mirrored(leftPt, rightPt) ==
  \A i \in 1..Len(finalPdf) :
    getLabelForPage(sectionMap, i) # NoLabel =>
      LET a     == Added(i)
          right == NSub(Num(finalPdf[i].width), rightPt)
      IN  /\ a[1].y = a[2].y
          /\ IF i % 2 = 1
             THEN /\ EndsAt(a[1], right)
                  /\ a[2].x = leftPt
                  /\ EndsAt(a[3], right)
             ELSE /\ a[1].x = leftPt
                  /\ EndsAt(a[2], right)
                  /\ a[3].x = leftPt

\* C10: on an odd page the label and the page number end at the right
\* margin (margin.right in from the right edge) and the version starts at
\* the left margin; on an even page the label and the page number start at
\* the left margin and the version ends at the right margin; label and
\* version have the same y.
C10_AlignedToMargins ==
  pc = "close" => Mirrored(cmToPt(cfg.margin.left), cmToPt(cfg.margin.right))

\* The pages of the pass-1 buffer on which a token of the marker id is found
PagesOf(id) ==
  {p \in 1..Len(pass1) :
     \E k \in 1..Len(matchAll(pass1[p])) : matchAll(pass1[p])[k].id = id}

\* C11: once the section map is extracted, every entry holds as startPage
\* the first page of the pass-1 buffer on which a token of its id is found,
\* and once the injection is done the placeholder of every id other than TOC
\* that has one reads that first page.
C11_FirstPageOfId ==
  (pc \in {"inject", "pass2"}) =>
    \A k \in 1..Len(sectionMap) :
      LET id    == sectionMap[k].id
          first == Min(PagesOf(id))
      IN  /\ sectionMap[k].startPage = first
          /\ (pc = "pass2" /\ id # TOC /\ TocPn(id) \in DOMAIN dom) =>
               dom[TocPn(id)] = ToStr(first)

\* The version texts of the headers of the script's final document: on a
\* page with a header the version is the second operation the overlay added,
\* after the page's content and the section label.
HeaderVersionTexts ==
  {finalPdf[i].ops[3].text : i \in {j \in 1..Len(finalPdf) : Len(finalPdf[j].ops) > 1}}

\* C12: in the script's final document every header carries "v" and the
\* major.minor.patch of the version the run publishes, which is the version
\* of the blob key the run writes; the headers of the document the worker
\* generated carry the version string of the version the request publishes.
C12_HeaderVersion ==
  /\ (pc \in {"close", "upload", "kvput"}) =>
       /\ HeaderVersionTexts \subseteq {<<"v">> \o ver(next)}
       /\ version = ver(next)
       /\ (pc = "kvput" => r2Key(ver(next)) \in blobs)
  /\ wpdf # <<>> => wpdf[1].headerVersion = versionString(wnext)

\* The entries of the section map that start on page p, in map order
EntriesOfPage(p) ==
  LET OnPage(e) == e.startPage = p IN SelectSeq(sectionMap, OnPage)

AfterExtract == {"inject", "pass2", "verify", "overlay", "close"}

\* C13: once the section map is extracted, the entries of every page are
\* the marker occurrences of that page's text, each with its id and with the
\* label the token carries, else the table-of-contents title when the id is
\* TOC, else the id; no entry has the empty label.
C13_LabelResolution ==
  (pc \in AfterExtract) =>
    /\ \A k \in 1..Len(sectionMap) : sectionMap[k].label # <<>>
    /\ \A p \in 1..Len(pass1) :
         LET ms == matchAll(pass1[p])
             es == EntriesOfPage(p)
         IN  /\ Len(es) = Len(ms)
             /\ \A k \in 1..Len(ms) :
                  /\ es[k].id = ms[k].id
                  /\ es[k].label = IF ms[k].hasLabel THEN ms[k].label
                                   ELSE IF ms[k].id = TOC THEN TocTitle
                                   ELSE ms[k].id

\* A section map with the three kinds of label: explicit, the title of the
\* table of contents, the id
C13_ThreeKinds ==
  /\ pc = "inject"
  /\ \E k \in 1..Len(sectionMap) :
       sectionMap[k].id = Id01 /\ sectionMap[k].label = SubSeq(Text01, 11, Len(Text01))
  /\ \E k \in 1..Len(sectionMap) :
       sectionMap[k].id = TOC /\ sectionMap[k].label = TocTitle
  /\ \E k \in 1..Len(sectionMap) :
       sectionMap[k].id = Id03 /\ sectionMap[k].label = Id03

\* The tokens of a text: its maximal runs of characters other than whitespace
RECURSIVE TokensFrom(_, _, _)
TokensFrom(text, i, cur) ==
  IF i > Len(text) THEN (IF cur = <<>> THEN <<>> ELSE <<cur>>)
  ELSE IF text[i] \in SpaceCh
       THEN (IF cur = <<>> THEN <<>> ELSE <<cur>>) \o TokensFrom(text, i + 1, <<>>)
       ELSE TokensFrom(text, i + 1, Append(cur, text[i]))

Tokens(text) == TokensFrom(text, 1, <<>>)

\* The tokens written one after the other with a space between them
RECURSIVE JoinTokens(_)
JoinTokens(toks) ==
  IF toks = <<>> THEN <<>>
  ELSE IF Len(toks) = 1 THEN toks[1]
  ELSE toks[1] \o <<" ">> \o JoinTokens(Tail(toks))

\* FWMARK- with no id after it
NoIdToken(t) == t = FWMARK

\* FWMARK-, an id, a hyphen and a label part with a character that is none
\* of uppercase letter, digit, dot and underscore
BadLabelToken(t) ==
  /\ Len(t) > Len(FWMARK)
  /\ SubSeq(t, 1, Len(FWMARK)) = FWMARK
  /\ \E h \in (Len(FWMARK) + 2)..(Len(t) - 1) :
       /\ t[h] = "-"
       /\ \A k \in (Len(FWMARK) + 1)..(h - 1) : t[k] \in WordCh
       /\ \E k \in (h + 1)..Len(t) : t[k] \notin LabelCh

MalformedToken(t) == NoIdToken(t) \/ BadLabelToken(t)

\* The positions of text at which a token starts, and the token that starts
\* at such a position
TokenStarts(text) ==
  {i \in 1..Len(text) : text[i] \notin SpaceCh /\ (i = 1 \/ text[i - 1] \in SpaceCh)}

TokenAt(text, i) ==
  SubSeq(text, i, Min({j \in i..Len(text) : j = Len(text) \/ text[j + 1] \in SpaceCh}))

\* C14: MARKER_RE matches at the start of no malformed token of a page,
\* neither the whole token nor a prefix of it, and the entries the section
\* map holds for the page are those of the page's text with its malformed
\* tokens taken out; a page whose tokens are all malformed has no entry.
C14_MalformedTokensIgnored ==
  (pc \in AfterExtract) =>
    \A p \in 1..Len(pass1) :
      LET toks    == Tokens(pass1[p])
          WellFormed(t) == ~MalformedToken(t)
          kept    == SelectSeq(toks, WellFormed)
      IN  /\ \A i \in TokenStarts(pass1[p]) :
               MalformedToken(TokenAt(pass1[p], i)) => ~Matches(pass1[p], i)
          /\ EntriesOfPage(p) = PageMarkers(JoinTokens(kept), p)
          /\ Len(EntriesOfPage(p)) <= Len(kept)
          /\ kept = <<>> => EntriesOfPage(p) = <<>>

\* A page with a malformed token before a well-formed one gave the entry of
\* the well-formed token only, a page with only FWMARK- gave none.
C14_MalformedSeen ==
  /\ pc = "inject"
  /\ Len(pass1) = 2
  /\ pass1[1] = TokLower \o <<" ">> \o Text01
  /\ pass1[2] = TokNoId
  /\ Len(sectionMap) = 1
  /\ sectionMap[1].id = Id01

\* No page of the final document has more than the content of its render.
NothingDrawn == \A i \in 1..Len(finalPdf) : Len(finalPdf[i].ops) = 1

\* C15: in a run in which nothing else fails, the extraction of a pass-1
\* buffer without marker gives the empty section map; with the empty map
\* the injection leaves every placeholder as it is, the overlay gives the
\* pass-2 pages as they are, and the run goes on: the document without
\* drawings is uploaded under the key of the run and the version store gets
\* the next version, which differs from the one it held.
C15_EmptyMapPublishes ==
  [][/\ (pc = "extract" /\ \A p \in 1..Len(pass1) : matchAll(pass1[p]) = <<>>) =>
          pc' = "inject" /\ sectionMap' = <<>>
     /\ (pc \in {"inject", "pass2", "verify"} /\ sectionMap = <<>>) =>
          sectionMap' = <<>> /\ dom' = dom /\ pc' \in {"pass2", "verify", "overlay"}
     /\ (pc = "overlay" /\ sectionMap = <<>>) =>
          pc' = "close" /\ finalPdf' = pass2
     /\ (pc = "close" /\ sectionMap = <<>>) =>
          pc' = "upload" /\ finalPdf' = finalPdf
     /\ (pc = "upload" /\ NothingDrawn) =>
          pc' = "kvput" /\ blobs' = blobs \cup {r2Key(ver(next))} /\ finalPdf' = finalPdf
     /\ (pc = "kvput" /\ NothingDrawn) =>
          pc' = "done" /\ exit' = "ok" /\ kv' = <<next>> /\ kv' # kv
  ]_vars

\* The overlay of a document without marker is done: no section, every
\* placeholder with its first text, the pass-2 pages as they were.
C15_NoMarkerDocument ==
  /\ pc = "close"
  /\ sectionMap = <<>>
  /\ Len(pass1) >= 2
  /\ \A p \in 1..Len(pass1) : pass1[p] = TextCover
  /\ DOMAIN dom # {}
  /\ \A e \in DOMAIN dom : dom[e] = PlaceholderText
  /\ Len(finalPdf) >= 2
  /\ finalPdf = pass2

\* C16: the startPage values of the section map never decrease along the
\* map, and the entries of one page stand in the map next to each other in
\* the order in which their tokens stand in the page's text.
C16_SortedAndStable ==
  (pc \in AfterExtract) =>
    /\ \A k \in 1..(Len(sectionMap) - 1) :
         sectionMap[k].startPage <= sectionMap[k + 1].startPage
    /\ \A p \in 1..Len(pass1) :
         LET ms == matchAll(pass1[p])
             es == EntriesOfPage(p)
         IN  /\ Len(es) = Len(ms)
             /\ \A k \in 1..Len(ms) : es[k].id = ms[k].id
    /\ \A k \in 1..Len(sectionMap) : sectionMap[k].startPage \in 1..Len(pass1)

\* Two markers of one page after a marker of an earlier page
C16_TwoOnOnePage ==
  /\ pc = "inject"
  /\ Len(sectionMap) >= 3
  /\ \E k \in 2..(Len(sectionMap) - 1) :
       /\ sectionMap[k - 1].startPage < sectionMap[k].startPage
       /\ sectionMap[k].startPage = sectionMap[k + 1].startPage
       /\ sectionMap[k].id = Id01
       /\ sectionMap[k + 1].id = Id02

\* The number of operations of ops that satisfy Is
CountOps(ops, Is(_)) == Cardinality({k \in 1..Len(ops) : Is(ops[k])})

\* C17: from the overlay to the end of the run, every page of the final
\* document holds the content of its render once, as its first operation,
\* and either nothing more or exactly three texts and two rules; when the
\* overlay is done, a page for which the section map gives a label holds
\* exactly one text with the section label, one with the version and one
\* with the page number, and every page starts with the operations it had
\* in pass 2, in their order, and has the size it had.
C17_OneOverlayPerPage ==
  /\ \A i \in 1..Len(finalPdf) :
       LET ops == finalPdf[i].ops
           IsBody(o) == o.kind = "body"
           IsText(o) == o.kind = "text"
           IsLine(o) == o.kind = "line"
       IN  /\ CountOps(ops, IsBody) = 1
           /\ ops[1] = [kind |-> "body", page |-> i]
           /\ \/ CountOps(ops, IsText) = 0 /\ CountOps(ops, IsLine) = 0
              \/ CountOps(ops, IsText) = 3 /\ CountOps(ops, IsLine) = 2
  /\ pc = "close" =>
       /\ Len(finalPdf) = Len(pass2)
       /\ \A i \in 1..Len(pass2) :
            LET ops == finalPdf[i].ops
                l   == getLabelForPage(sectionMap, i)
                IsLabel(o)   == o.kind = "text" /\ o.text = cfg.sectionPrefix \o l.label
                IsVersion(o) == o.kind = "text" /\ o.text = <<"v">> \o version
                IsNumber(o)  == o.kind = "text" /\ o.text = ToStr(i)
                IsLine(o)    == o.kind = "line"
            IN  /\ SubSeq(ops, 1, Len(pass2[i].ops)) = pass2[i].ops
                /\ finalPdf[i].width = pass2[i].width
                /\ finalPdf[i].height = pass2[i].height
                /\ l # NoLabel =>
                     /\ CountOps(ops, IsLabel) = 1
                     /\ CountOps(ops, IsVersion) = 1
                     /\ CountOps(ops, IsNumber) = 1
                     /\ CountOps(ops, IsLine) = 2
                     /\ Len(ops) = Len(pass2[i].ops) + 5

\* The document is on its way to the blob store with a page that has header
\* and footer.
C17_OverlaidDocumentKept ==
  /\ pc = "kvput"
  /\ Len(finalPdf) >= 2
  /\ \E i \in 1..Len(finalPdf) : Len(finalPdf[i].ops) = 6
  /\ r2Key(version) \in blobs

\* The odd pages that are followed by a page of the same width, both with
\* header and the same label and version texts
MirrorPairs ==
  {i \in 1..(Len(finalPdf) - 1) :
     /\ i % 2 = 1
     /\ finalPdf[i].width = finalPdf[i + 1].width
     /\ Len(Added(i)) = 5
     /\ Len(Added(i + 1)) = 5
     /\ Added(i)[1].text = Added(i + 1)[1].text
     /\ Added(i)[2].text = Added(i + 1)[2].text}

\* C18 as stated: the x of the label on the odd page is the x of the version
\* on the even page, and the x of the version on the odd page is the x of
\* the label on the even page.
C18_XSwapped ==
  pc = "close" =>
    \A i \in MirrorPairs :
      /\ Added(i)[1].x = Added(i + 1)[2].x
      /\ Added(i)[2].x = Added(i + 1)[1].x

\* The x at which a text op ends
RightEdge(op) == NAdd(op.x, widthOfTextAtSize(op.text, op.size))

\* C18 as amended: the x at which the label ends on the odd page is the x
\* at which the version ends on the even page, and the x of the version on
\* the odd page is the x of the label on the even page; the x of the label
\* on the odd page is the x of the version on the even page exactly when
\* the two texts have the same width.
C18_EdgesSwapped ==
  pc = "close" =>
    \A i \in MirrorPairs :
      /\ RightEdge(Added(i)[1]) = RightEdge(Added(i + 1)[2])
      /\ Added(i)[2].x = Added(i + 1)[1].x
      /\ (Added(i)[1].x = Added(i + 1)[2].x) <=>
           (widthOfTextAtSize(Added(i)[1].text, Added(i)[1].size)
              = widthOfTextAtSize(Added(i + 1)[2].text, Added(i + 1)[2].size))

\* An odd page and the next page with the same label, whose label and
\* version texts differ in width
C18_PairOfPages ==
  /\ pc = "close"
  /\ 1 \in MirrorPairs
  /\ Len(Added(1)[1].text) # Len(Added(1)[2].text)

\* v is less than r in the lexicographic order of (major, minor, patch).
LexLess(v, r) ==
  \/ v.major < r.major
  \/ v.major = r.major /\ v.minor < r.minor
  \/ v.major = r.major /\ v.minor = r.minor /\ v.patch < r.patch

\* r is v bumped by b: the component of b incremented, the lower ones 0.
BumpedAsClaimed(v, b, r) ==
  /\ b \in BumpKinds
  /\ b = "major" => r = [major |-> v.major + 1, minor |-> 0, patch |-> 0]
  /\ b = "minor" => r = [major |-> v.major, minor |-> v.minor + 1, patch |-> 0]
  /\ b = "patch" => r = [major |-> v.major, minor |-> v.minor, patch |-> v.patch + 1]
  /\ LexLess(v, r)
  /\ r.major >= 0 /\ r.minor >= 0 /\ r.patch >= 0

\* C19: the version the script, and the worker, computes from the stored
\* version v and the bump is {v.major+1, 0, 0} for major, {v.major,
\* v.minor+1, 0} for minor and {v.major, v.minor, v.patch+1} for patch; it
\* is greater than v in lexicographic order and has no negative component;
\* the version store only moves to a greater version.
C19_BumpArithmetic ==
  [][/\ (pc = "version" /\ pc' = "launch") => BumpedAsClaimed(kv[1], bump, next')
     /\ (wpc = "version" /\ wpc' = "generate") => BumpedAsClaimed(kv[1], wbump, wnext')
     /\ kv' # kv => LexLess(kv[1], kv'[1])
  ]_vars

\* The minor bump of 1.2.3 is computed: 1.3.0.
C19_MinorOf123 ==
  /\ pc = "launch"
  /\ bump = "minor"
  /\ kv = <<[major |-> 1, minor |-> 2, patch |-> 3]>>
  /\ next = [major |-> 1, minor |-> 3, patch |-> 0]

LabelInitSys == <<"I","N","I","T",".","S","Y","S">>

LabelKernel == <<"K","E","R","N","E","L">>

\* The label the ten-page document shows on page i
Doc10Label(i) ==
  IF i <= 2 THEN TocTitle ELSE IF i <= 6 THEN LabelInitSys ELSE LabelKernel

\* C20: for the ten-page document the section map is (TOC, title of the
\* table of contents, 1), (01, INIT.SYS, 3), (02, KERNEL, 7) in that order,
\* and every page of the overlaid document has a header, with the title of
\* the table of contents on pages 1 and 2, INIT.SYS on pages 3 to 6 and
\* KERNEL from page 7 on.
C20_TenPages ==
  (pass1 = Doc10 /\ pc \in AfterExtract) =>
    /\ sectionMap = << [id |-> TOC, label |-> TocTitle, startPage |-> 1],
                       [id |-> Id01, label |-> LabelInitSys, startPage |-> 3],
                       [id |-> Id02, label |-> LabelKernel, startPage |-> 7] >>
    /\ pc = "close" =>
         \A i \in 1..Len(finalPdf) :
           /\ getLabelForPage(sectionMap, i) = [found |-> TRUE, label |-> Doc10Label(i)]
           /\ Len(Added(i)) = 5
           /\ Added(i)[1].text = cfg.sectionPrefix \o Doc10Label(i)

\* The ten pages are overlaid: page 5 shows INIT.SYS, page 10 KERNEL.
C20_TenPagesOverlaid ==
  /\ pc = "close"
  /\ pass1 = Doc10
  /\ Len(finalPdf) = 10
  /\ Added(2)[1].text = cfg.sectionPrefix \o TocTitle
  /\ Added(5)[1].text = cfg.sectionPrefix \o LabelInitSys
  /\ Added(10)[1].text = cfg.sectionPrefix \o LabelKernel

\* C21: nothing holds back a run while another is in progress: a run that
\* is about to read the version can read it, and a run that is about to
\* write the version can write the version it computed, whatever the store
\* holds by then; so when the script and the worker have both ended well the
\* store holds the version of the one that wrote last, not a version that
\* reflects both bumps.
C21_NoLockNoCompareAndSet ==
  /\ pc = "version" =>
       ENABLED (\E o \in {"value", "empty"} :
                  (o = "empty" => kv = <<>>) /\ ReadVersion(o))
  /\ wpc = "version" => ENABLED WReadVersion(TRUE)
  /\ pc = "kvput" => ENABLED (KvPut(TRUE) /\ pc' = "done" /\ kv' = <<next>>)
  /\ wpc = "kvput" => ENABLED (WKvPut(TRUE) /\ wstatus' = "200" /\ kv' = <<wnext>>)
  /\ (pc = "done" /\ wpc = "responded" /\ wstatus = "200") =>
       kv \in {<<next>>, <<wnext>>}

\* The script and the worker overlapped, both with the bump patch, both
\* computed the same next version (so both read the same version), both
\* ended well: two publishes, the stored version one patch above the start,
\* and the one blob key, absent when either started, written by both.
C21_LostUpdate ==
  /\ runs = 2
  /\ pc = "done" /\ exit = "ok"
  /\ wpc = "responded" /\ wstatus = "200"
  /\ bump = "patch" /\ wbump = "patch"
  /\ next = wnext
  /\ version = wversion
  /\ kv = <<bumpVersion(V0, "patch")>>
  /\ r2Key(version) \in blobs
  /\ r2Key(version) \notin blobs0
  /\ r2Key(version) \notin wblobs0

\* The states of a script run after the version has been read.
AfterRead ==
  {"launch", "goto", "pass1", "extract", "inject", "pass2", "verify",
   "overlay", "close", "upload", "kvput", "done"}

\* C22: a read that fails, prints nothing or prints what does not parse
\* does not end the run: from the point of the read the script goes on to
\* launch the browser with the bump of 0.0.0 as its next version, whatever
\* the store holds; and the version a run works with is the bump of either
\* 0.0.0 or the stored version.
C22_FailedReadIsAbsentKey ==
  /\ pc = "version" =>
       \A o \in ReadOutcomes \ {"value"} :
         ENABLED (/\ ReadVersion(o)
                  /\ pc' = "launch"
                  /\ next' = bumpVersion(V0, bump)
                  /\ version' = ver(bumpVersion(V0, bump)))
  /\ pc \in AfterRead =>
       \/ next = bumpVersion(V0, bump)
       \/ kv0 # <<>> /\ next = bumpVersion(kv0[1], bump)

\* A run has published, and the version it stored is lower than the version
\* stored when it started.
C22_VersionWentDown ==
  /\ pc = "done"
  /\ exit = "ok"
  /\ kv0 # <<>>
  /\ kv = <<next>>
  /\ next = bumpVersion(V0, bump)
  /\ LexLess(kv[1], kv0[1])

\* The pages of the pass-1 buffer that carry a marker
MarkerPages == {p \in 1..Len(pass1) : matchAll(pass1[p]) # <<>>}

\* The label of the marker found last in the text of page p of pass 1
LastLabelOfPage(p) ==
  LET ms == matchAll(pass1[p]) IN ResolveLabel(ms[Len(ms)])

\* C23: in the overlaid document the pages with a header are the last pages
\* of the document: when a page has one, every later page has one; the pages
\* of pass 2 beyond the page count of pass 1 have one whenever pass 1 had a
\* marker, and it shows the label of the marker found last in pass 1.
C23_HeadersFormSuffix ==
  pc = "close" =>
    /\ \A p \in 1..Len(finalPdf), q \in 1..Len(finalPdf) :
         (p < q /\ Added(p) # <<>>) => Added(q) # <<>>
    /\ \A q \in 1..Len(finalPdf) :
         (q > pass1Pages /\ MarkerPages # {}) =>
           /\ Len(Added(q)) = 5
           /\ Added(q)[1].text =
                cfg.sectionPrefix \o LastLabelOfPage(Max(MarkerPages))

\* Pass 2 has a page more than pass 1; the first page has no header, a
\* marker page of pass 1 has one and so has the page pass 1 did not have.
C23_ExtraPageLabelled ==
  /\ pc = "close"
  /\ pass1Pages >= 2
  /\ Len(finalPdf) = pass1Pages + 1
  /\ Added(1) = <<>>
  /\ \E p \in MarkerPages : Added(p) # <<>>
  /\ Len(Added(Len(finalPdf))) = 5

\* C24: in the overlaid document the header of a page at or after a marker
\* page shows the label of the marker found last in the text of the nearest
\* marker page at or before it; on a page with several markers, and on the
\* pages after it up to the next marker page, that is the label of the last
\* of them in the text.
C24_LastMarkerOfPageWins ==
  pc = "close" =>
    \A i \in 1..Len(finalPdf) :
      LET ps == {p \in MarkerPages : p <= i}
      IN  ps # {} =>
            /\ Len(Added(i)) = 5
            /\ Added(i)[1].text = cfg.sectionPrefix \o LastLabelOfPage(Max(ps))

\* A page with two markers of different labels, a page without marker after
\* it and a marker page after that: the first two show the label of the
\* second marker, the third the label of its own.
C24_TwoMarkersThenNext ==
  /\ pc = "close"
  /\ Len(finalPdf) = 3
  /\ pass1 = <<Text0102, TextCover, Text03>>
  /\ Len(matchAll(pass1[1])) = 2
  /\ ResolveLabel(matchAll(pass1[1])[1]) # ResolveLabel(matchAll(pass1[1])[2])
  /\ Added(1)[1].text = cfg.sectionPrefix \o ResolveLabel(matchAll(pass1[1])[2])
  /\ Added(2)[1].text = Added(1)[1].text
  /\ Added(3)[1].text = cfg.sectionPrefix \o Id03

\* C25: for every marker that is not TOC and has a placeholder, the text
\* its turn of the injection writes into the placeholder is the text of the
\* page number the overlay draws on the page of the final document with the
\* physical index of the page the marker was found on in pass 1, when the
\* final document has that page; the placeholder still reads it at the end
\* when the marker is the last of its id; and when pass 2 has as many pages
\* as pass 1 the final document has that page, with a header, which shows
\* the marker's label when no marker follows it on its page.
C25_InjectedIsPrintedNumber ==
  pc = "close" =>
    \A k \in 1..Len(sectionMap) :
      LET s  == sectionMap[k]
          e  == TocPn(s.id)
          ks == {j \in 1..Len(sectionMap) : sectionMap[j].id = s.id}
      IN  (s.id # TOC /\ e \in DOMAIN dom) =>
            /\ s.startPage \in MarkerPages
            /\ s.startPage <= Len(finalPdf) =>
                 /\ Len(Added(s.startPage)) = 5
                 /\ Added(s.startPage)[3].kind = "text"
                 /\ InjectAll(dom, InjectedSections(SubSeq(sectionMap, 1, k)))[e]
                      = Added(s.startPage)[3].text
                 /\ k = Max(ks) => dom[e] = Added(s.startPage)[3].text
            /\ Len(pass2) = pass1Pages =>
                 /\ s.startPage <= Len(finalPdf)
                 /\ (k = Len(sectionMap) \/ sectionMap[k + 1].startPage > s.startPage) =>
                      Added(s.startPage)[1].text = cfg.sectionPrefix \o s.label

\* Marker 01 was found on page 2 of pass 1 and has a placeholder; pass 2 has
\* the pages of pass 1; the placeholder reads 2 and page 2 of the final
\* document shows the page number 2 under the header of 01.
C25_SecondPageSection ==
  /\ pc = "close"
  /\ Len(pass2) = pass1Pages
  /\ \E k \in 1..Len(sectionMap) :
       /\ sectionMap[k].id = Id01
       /\ sectionMap[k].startPage = 2
       /\ Added(2)[1].text = cfg.sectionPrefix \o sectionMap[k].label
  /\ TocPn(Id01) \in DOMAIN dom
  /\ dom[TocPn(Id01)] = <<"2">>
  /\ Added(2)[3].text = <<"2">>

====
